---- MODULE Spec2Model ----
(***************************************************************************)
(* Merchant ledger (MerchantNPCCoreV2 with InventoryLib, ValidationLib and  *)
(* PurchaseLib) and its clone factory (MerchantFactoryCoreV2).              *)
(*                                                                         *)
(* One contract account is observed per behaviour: a MerchantNPCCoreV2     *)
(* built by its constructor (the template), a minimal-proxy clone of it     *)
(* (whose constructor never ran), or a MerchantFactoryCoreV2.  Accounts     *)
(* own disjoint storage; the only call one of them makes into another is    *)
(* the factory's initialize on the clone it has just created.               *)
(*                                                                         *)
(* The legacy contracts are modelled beside them: MerchantNPC (SpecNPC) and *)
(* MerchantFactory, which deploys a MerchantNPC per merchant (SpecFactory). *)
(*                                                                         *)
(* A transaction is atomic: a revert restores the storage the transaction   *)
(* started from.  A handler that calls out to a contract (the refund or     *)
(* payout transfer, the ERC721 receipt callback of _safeMint) is split at   *)
(* the call: the state in between is visible to the callee, which may call  *)
(* back into the ledger, accept, or revert.                                 *)
(***************************************************************************)
EXTENDS Integers, Sequences, FiniteSets, TLC

\* uint256 scaled down: checked arithmetic reverts (Panic 0x11) above UintMax.
\* The exhaustive exploration uses the narrow type; the instance I1 of the
\* example scenario (amounts up to 100) uses the wide one.
UintSmall == 2
UintScenario == 100
\* Cap on _tokenIdCounter (merchants minted per instance).
MaxTokens == 1
\* Cap on itemCount (items added per merchant).
MaxItems == 2
\* Cap on the number of clones a factory creates.
MaxClones == 2

Zero == "0x0"
\* "A" is an externally owned account, "X" is a contract account.
Addr == {"A", "X"}
isContract(a) == a = "X"

Names == {"", "N"}
MerchantIds == 1..MaxTokens
ItemIds == 0..(MaxItems - 1)

VARIABLES
    account,   \* which contract account is observed, and how it was built
    ledger,    \* storage and balance of the observed MerchantNPCCoreV2
    factory,   \* storage of the observed MerchantFactoryCoreV2
    clones,    \* storage of the clones the factory created, by creation order
    pending,   \* the external call the transaction in flight is waiting on
    saved,     \* what a revert of the transaction in flight restores
    sales      \* per item: stock when last added or restocked, units sold since

vars == <<account, ledger, factory, clones, pending, saved, sales>>

UintMax == IF account = "I1" THEN UintScenario ELSE UintSmall

\* uint256 arguments (price, quantity) and msg.value range over the type.
Args == 0..UintMax
Values == 0..UintMax

-----------------------------------------------------------------------------
\* StorageLib

EmptyItem == [name |-> "", price |-> 0, quantity |-> 0, isActive |-> FALSE]

EmptyMerchant == [name |-> "", owner |-> Zero, totalProfit |-> 0]

EmptyInventory == [items |-> [i \in ItemIds |-> EmptyItem], itemCount |-> 0]

\* Storage of an account whose constructor never ran (a fresh clone).
EmptyLedger ==
    [initialized    |-> FALSE,
     tokenIdCounter |-> 0,
     merchantOwner  |-> Zero,
     owners         |-> [m \in MerchantIds |-> Zero],
     tokenApprovals |-> [m \in MerchantIds |-> Zero],
     merchants      |-> [m \in MerchantIds |-> EmptyMerchant],
     inventories    |-> [m \in MerchantIds |-> EmptyInventory],
     entered        |-> FALSE,
     balance        |-> 0]

\* MerchantNPCCoreV2.constructor
constructor == [EmptyLedger EXCEPT !.initialized = TRUE]

-----------------------------------------------------------------------------
\* Results of a handler: a revert (storage untouched), a return, or having
\* reached an external call with the storage as written so far.

NoCall == [kind |-> "none", op |-> "", to |-> Zero, amount |-> 0, tokenId |-> 0, name |-> ""]

Revert(L, e) == [err |-> e, L |-> L, call |-> NoCall]

Return(L) == [err |-> "ok", L |-> L, call |-> NoCall]

Calls(L, c) == [err |-> "ok", L |-> L, call |-> c]

-----------------------------------------------------------------------------
\* ValidationLib: TRUE when the check passes

validatePrice(price) == price # 0

validateQuantity(qty) == qty # 0

validateName(name) == name # ""

\* The stock check with its arguments swapped.
validateStock_swapped(available, requested) == ~(requested < available)

validateStock(available, requested) == ~(available < requested)

validatePayment(sent, required) == ~(sent < required)

-----------------------------------------------------------------------------
\* ERC721 (OpenZeppelin): _owners, ownerOf, _safeMint

exists(L, m) == m \in MerchantIds /\ L.owners[m] # Zero

ownerOf(L, m) == L.owners[m]

getApproved(L, m) == L.tokenApprovals[m]

\* ReentrancyGuard.nonReentrant: the lock is taken on entry.
nonReentrantEnter(L) == [L EXCEPT !.entered = TRUE]

nonReentrantExit(L) == [L EXCEPT !.entered = FALSE]

\* A reentrancy guard that never sees the lock.
isEntered_never(L) == FALSE

isEntered(L) == L.entered

-----------------------------------------------------------------------------
\* InventoryLib

\* addItem without validatePrice.
InventoryLib_addItem_anyPrice(L, m, name, price, quantity) ==
    IF ~validateName(name) THEN Revert(L, "InvalidName")
    ELSE IF ~validateQuantity(quantity) THEN Revert(L, "InvalidQuantity")
    ELSE LET itemId == L.inventories[m].itemCount
         IN Return([L EXCEPT
                !.inventories[m].itemCount = @ + 1,
                !.inventories[m].items[itemId] =
                    [name |-> name, price |-> price,
                     quantity |-> quantity, isActive |-> TRUE]])

InventoryLib_addItem(L, m, name, price, quantity) ==
    IF ~validateName(name) THEN Revert(L, "InvalidName")
    ELSE IF ~validatePrice(price) THEN Revert(L, "InvalidPrice")
    ELSE IF ~validateQuantity(quantity) THEN Revert(L, "InvalidQuantity")
    ELSE LET itemId == L.inventories[m].itemCount
         IN Return([L EXCEPT
                !.inventories[m].itemCount = @ + 1,
                !.inventories[m].items[itemId] =
                    [name |-> name, price |-> price,
                     quantity |-> quantity, isActive |-> TRUE]])

restock(L, m, itemId, additionalQty) ==
    IF ~validateQuantity(additionalQty) THEN Revert(L, "InvalidQuantity")
    ELSE IF L.inventories[m].items[itemId].quantity + additionalQty > UintMax
        THEN Revert(L, "Panic")
    ELSE Return([L EXCEPT !.inventories[m].items[itemId].quantity = @ + additionalQty])

toggleActive(L, m, itemId) ==
    Return([L EXCEPT !.inventories[m].items[itemId].isActive = ~@])

-----------------------------------------------------------------------------
\* PurchaseLib

\* A stock debit of one unit whatever the quantity bought.
debitStock_oneUnit(L, m, itemId, quantity) ==
    [L EXCEPT !.inventories[m].items[itemId].quantity = @ - 1]

\* item.quantity -= quantity
debitStock(L, m, itemId, quantity) ==
    [L EXCEPT !.inventories[m].items[itemId].quantity = @ - quantity]

\* A profit credit that assigns instead of adding.
creditProfit_assigns(L, m, totalCost) ==
    [L EXCEPT !.merchants[m].totalProfit = totalCost]

\* merchant.totalProfit += totalCost
creditProfit(L, m, totalCost) ==
    [L EXCEPT !.merchants[m].totalProfit = @ + totalCost]

\* A refund of everything tendered.
changeAmount_all(value, totalCost) == value

\* msg.value - totalCost
changeAmount(value, totalCost) == value - totalCost

\* A purchase that checks the payment before the stock.
processPurchase_paymentFirst(L, sender, value, m, itemId, quantity) ==
    LET item == L.inventories[m].items[itemId]
        totalCost == item.price * quantity
    IN  IF ~item.isActive THEN Revert(L, "ItemNotActive")
        ELSE IF totalCost > UintMax THEN Revert(L, "Panic")
        ELSE IF ~validatePayment(value, totalCost) THEN Revert(L, "InsufficientPayment")
        ELSE IF ~validateStock(item.quantity, quantity) THEN Revert(L, "InsufficientStock")
        ELSE IF L.merchants[m].totalProfit + totalCost > UintMax THEN Revert(L, "Panic")
        ELSE LET L1 == creditProfit(debitStock(L, m, itemId, quantity), m, totalCost)
             IN  IF value > totalCost
                 THEN Calls([L1 EXCEPT !.balance = @ - changeAmount(value, totalCost)],
                            [NoCall EXCEPT !.kind = "transfer", !.op = "buyItem",
                                           !.to = sender,
                                           !.amount = changeAmount(value, totalCost)])
                 ELSE Return(L1)

\* msg.value is already part of the balance when the handler runs.
processPurchase(L, sender, value, m, itemId, quantity) ==
    LET item == L.inventories[m].items[itemId]
        totalCost == item.price * quantity
    IN  IF ~item.isActive THEN Revert(L, "ItemNotActive")
        ELSE IF ~validateStock(item.quantity, quantity) THEN Revert(L, "InsufficientStock")
        ELSE IF totalCost > UintMax THEN Revert(L, "Panic")
        ELSE IF ~validatePayment(value, totalCost) THEN Revert(L, "InsufficientPayment")
        ELSE IF item.quantity < quantity THEN Revert(L, "Panic")
        ELSE IF L.merchants[m].totalProfit + totalCost > UintMax THEN Revert(L, "Panic")
        ELSE LET L1 == creditProfit(debitStock(L, m, itemId, quantity), m, totalCost)
             IN  IF value > totalCost
                 THEN Calls([L1 EXCEPT !.balance = @ - changeAmount(value, totalCost)],
                            [NoCall EXCEPT !.kind = "transfer", !.op = "buyItem",
                                           !.to = sender,
                                           !.amount = changeAmount(value, totalCost)])
                 ELSE Return(L1)

-----------------------------------------------------------------------------
\* MerchantNPCCoreV2

\* ERC721._safeMint: _mint, then the receipt callback when `to` is a contract.
safeMint(L, op, to, tokenId, name) ==
    IF to = Zero THEN Revert(L, "ERC721InvalidReceiver")
    ELSE Calls([L EXCEPT !.owners[tokenId] = to],
               [NoCall EXCEPT !.kind = "safeMint", !.op = op, !.to = to,
                              !.tokenId = tokenId, !.name = name])

\* initialize without its AlreadyInitialized check.
initialize_unguarded(L, name, owner) ==
    IF ~validateName(name) THEN Revert(L, "InvalidName")
    ELSE IF owner = Zero THEN Revert(L, "InvalidOwner")
    ELSE LET tokenId == L.tokenIdCounter + 1
             R == safeMint([L EXCEPT !.initialized = TRUE,
                                     !.merchantOwner = owner,
                                     !.tokenIdCounter = tokenId],
                           "initialize", owner, tokenId, name)
         IN  IF R.err # "ok" THEN Revert(L, R.err) ELSE R

initialize(L, name, owner) ==
    IF L.initialized THEN Revert(L, "AlreadyInitialized")
    ELSE IF ~validateName(name) THEN Revert(L, "InvalidName")
    ELSE IF owner = Zero THEN Revert(L, "InvalidOwner")
    ELSE LET tokenId == L.tokenIdCounter + 1
             R == safeMint([L EXCEPT !.initialized = TRUE,
                                     !.merchantOwner = owner,
                                     !.tokenIdCounter = tokenId],
                           "initialize", owner, tokenId, name)
         IN  IF R.err # "ok" THEN Revert(L, R.err) ELSE R

\* mintMerchant without its NotInitialized check.
mintMerchant_unguarded(L, to, name) ==
    IF ~validateName(name) THEN Revert(L, "InvalidName")
    ELSE LET tokenId == L.tokenIdCounter + 1
             R == safeMint([L EXCEPT !.tokenIdCounter = tokenId],
                           "mintMerchant", to, tokenId, name)
         IN  IF R.err # "ok" THEN Revert(L, R.err) ELSE R

mintMerchant(L, to, name) ==
    IF ~L.initialized THEN Revert(L, "NotInitialized")
    ELSE IF ~validateName(name) THEN Revert(L, "InvalidName")
    ELSE LET tokenId == L.tokenIdCounter + 1
             R == safeMint([L EXCEPT !.tokenIdCounter = tokenId],
                           "mintMerchant", to, tokenId, name)
         IN  IF R.err # "ok" THEN Revert(L, R.err) ELSE R

\* A completion that leaves out the write of the merchant record.
writeMerchant_forgotten(L, tokenId, name, owner) == L

\* What initialize and mintMerchant do once _safeMint has returned.
writeMerchant(L, tokenId, name, owner) ==
    [L EXCEPT !.merchants[tokenId] =
        [name |-> name, owner |-> owner, totalProfit |-> 0]]

addItem(L, sender, m, name, price, quantity) ==
    IF ~L.initialized THEN Revert(L, "NotInitialized")
    ELSE IF ~exists(L, m) THEN Revert(L, "ERC721InvalidTokenId")
    ELSE IF ownerOf(L, m) # sender THEN Revert(L, "NotMerchantOwner")
    ELSE InventoryLib_addItem(L, m, name, price, quantity)

restockItem(L, sender, m, itemId, quantity) ==
    IF ~L.initialized THEN Revert(L, "NotInitialized")
    ELSE IF ~exists(L, m) THEN Revert(L, "ERC721InvalidTokenId")
    ELSE IF ownerOf(L, m) # sender THEN Revert(L, "NotMerchantOwner")
    ELSE restock(L, m, itemId, quantity)

toggleItem(L, sender, m, itemId) ==
    IF ~L.initialized THEN Revert(L, "NotInitialized")
    ELSE IF ~exists(L, m) THEN Revert(L, "ERC721InvalidTokenId")
    ELSE IF ownerOf(L, m) # sender THEN Revert(L, "NotMerchantOwner")
    ELSE toggleActive(L, m, itemId)

buyItem(L, sender, value, m, itemId, quantity) ==
    IF isEntered(L) THEN Revert(L, "ReentrantCall")
    ELSE IF ~L.initialized THEN Revert(L, "NotInitialized")
    ELSE LET R == processPurchase(
                    nonReentrantEnter([L EXCEPT !.balance = @ + value]),
                    sender, value, m, itemId, quantity)
         IN  IF R.err # "ok" THEN Revert(L, R.err)
             ELSE IF R.call.kind = "none" THEN Return(nonReentrantExit(R.L))
             ELSE R

\* A withdrawProfit that pays out before it zeroes the profit.
withdrawProfit_paysFirst(L, sender, m) ==
    IF isEntered(L) THEN Revert(L, "ReentrantCall")
    ELSE IF ~L.initialized THEN Revert(L, "NotInitialized")
    ELSE IF ~exists(L, m) THEN Revert(L, "ERC721InvalidTokenId")
    ELSE IF ownerOf(L, m) # sender THEN Revert(L, "NotMerchantOwner")
    ELSE LET profit == L.merchants[m].totalProfit
         IN  IF profit = 0 THEN Revert(L, "NoProfit")
             ELSE IF L.balance < profit THEN Revert(L, "TransferFailed")
             ELSE Calls([nonReentrantEnter(L) EXCEPT !.balance = @ - profit],
                        [NoCall EXCEPT !.kind = "transfer", !.op = "withdrawProfit",
                                       !.to = sender, !.amount = profit])

\* withdrawProfit without its NoProfit check.
withdrawProfit_paysNothing(L, sender, m) ==
    IF isEntered(L) THEN Revert(L, "ReentrantCall")
    ELSE IF ~L.initialized THEN Revert(L, "NotInitialized")
    ELSE IF ~exists(L, m) THEN Revert(L, "ERC721InvalidTokenId")
    ELSE IF ownerOf(L, m) # sender THEN Revert(L, "NotMerchantOwner")
    ELSE LET profit == L.merchants[m].totalProfit
         IN  IF L.balance < profit THEN Revert(L, "TransferFailed")
             ELSE Calls([nonReentrantEnter(L) EXCEPT
                            !.merchants[m].totalProfit = 0,
                            !.balance = @ - profit],
                        [NoCall EXCEPT !.kind = "transfer", !.op = "withdrawProfit",
                                       !.to = sender, !.amount = profit])

\* withdrawProfit without its ownership check.
withdrawProfit_anyCaller(L, sender, m) ==
    IF isEntered(L) THEN Revert(L, "ReentrantCall")
    ELSE IF ~L.initialized THEN Revert(L, "NotInitialized")
    ELSE IF ~exists(L, m) THEN Revert(L, "ERC721InvalidTokenId")
    ELSE LET profit == L.merchants[m].totalProfit
         IN  IF profit = 0 THEN Revert(L, "NoProfit")
             ELSE IF L.balance < profit THEN Revert(L, "TransferFailed")
             ELSE Calls([nonReentrantEnter(L) EXCEPT
                            !.merchants[m].totalProfit = 0,
                            !.balance = @ - profit],
                        [NoCall EXCEPT !.kind = "transfer", !.op = "withdrawProfit",
                                       !.to = sender, !.amount = profit])

withdrawProfit(L, sender, m) ==
    IF isEntered(L) THEN Revert(L, "ReentrantCall")
    ELSE IF ~L.initialized THEN Revert(L, "NotInitialized")
    ELSE IF ~exists(L, m) THEN Revert(L, "ERC721InvalidTokenId")
    ELSE IF ownerOf(L, m) # sender THEN Revert(L, "NotMerchantOwner")
    ELSE LET profit == L.merchants[m].totalProfit
         IN  IF profit = 0 THEN Revert(L, "NoProfit")
             ELSE IF L.balance < profit THEN Revert(L, "TransferFailed")
             ELSE Calls([nonReentrantEnter(L) EXCEPT
                            !.merchants[m].totalProfit = 0,
                            !.balance = @ - profit],
                        [NoCall EXCEPT !.kind = "transfer", !.op = "withdrawProfit",
                                       !.to = sender, !.amount = profit])

\* ERC721.transferFrom by the token's owner or the address approved for the
\* token; the transfer clears the approval.
transferFrom(L, sender, to, tokenId) ==
    IF ~exists(L, tokenId) THEN Revert(L, "ERC721InvalidTokenId")
    ELSE IF ownerOf(L, tokenId) # sender /\ getApproved(L, tokenId) # sender
        THEN Revert(L, "ERC721NotOwner")
    ELSE IF to = Zero THEN Revert(L, "ERC721InvalidReceiver")
    ELSE Return([L EXCEPT !.owners[tokenId] = to,
                          !.tokenApprovals[tokenId] = Zero])

\* ERC721.approve by the token's owner.
approve(L, sender, to, tokenId) ==
    IF ~exists(L, tokenId) THEN Revert(L, "ERC721InvalidTokenId")
    ELSE IF to = ownerOf(L, tokenId) THEN Revert(L, "ERC721ApprovalToOwner")
    ELSE IF ownerOf(L, tokenId) # sender THEN Revert(L, "ERC721InvalidApprover")
    ELSE Return([L EXCEPT !.tokenApprovals[tokenId] = to])

\* The rest of a handler after the external call it made has returned.
resume(L, call) ==
    IF call.kind = "safeMint" /\ call.op = "MerchantNPC.mintMerchant"
    THEN [L EXCEPT !.merchants[call.tokenId].name = call.name]
    ELSE IF call.kind = "safeMint"
    THEN writeMerchant(L, call.tokenId, call.name, call.to)
    ELSE nonReentrantExit(L)

-----------------------------------------------------------------------------
\* MerchantFactoryCoreV2

EmptyFactory ==
    [allMerchants       |-> << >>,
     merchantsByCreator |-> [a \in Addr |-> << >>],
     isAIAgent          |-> [a \in Addr |-> FALSE]]

FReturn(F, C) == [err |-> "ok", F |-> F, C |-> C]

FRevert(F, C, e) == [err |-> e, F |-> F, C |-> C]

registerAIAgent(F, C, agent) ==
    FReturn([F EXCEPT !.isAIAgent[agent] = TRUE], C)

\* createMerchant without its agent check.
createMerchant_anyCaller(F, C, sender, name, accepts) ==
    LET clone == Len(C) + 1
        R == initialize(EmptyLedger, name, sender)
        success == /\ R.err = "ok"
                   /\ isContract(R.call.to) => accepts
    IN  IF ~success THEN FRevert(F, C, "InitializationFailed")
        ELSE FReturn([F EXCEPT
                         !.allMerchants = Append(@, clone),
                         !.merchantsByCreator[sender] = Append(@, clone)],
                     Append(C, resume(R.L, R.call)))

\* Clones.clone gives the next address; `accepts` is whether the creator,
\* when it is a contract, accepts the token in its receipt callback.
createMerchant(F, C, sender, name, accepts) ==
    IF ~F.isAIAgent[sender] THEN FRevert(F, C, "NotAIAgent")
    ELSE LET clone == Len(C) + 1
             R == initialize(EmptyLedger, name, sender)
             success == /\ R.err = "ok"
                        /\ isContract(R.call.to) => accepts
         IN  IF ~success THEN FRevert(F, C, "InitializationFailed")
             ELSE FReturn([F EXCEPT
                              !.allMerchants = Append(@, clone),
                              !.merchantsByCreator[sender] = Append(@, clone)],
                          Append(C, resume(R.L, R.call)))

getMerchantCount(F) == Len(F.allMerchants)

-----------------------------------------------------------------------------
\* Transactions.  A call that reverts leaves no trace: it is no step.  The
\* error a call would revert with is what its handler gives in that state.

Idle == pending.kind = "none"

\* Top-level calls come from any account; while a call is waiting on a
\* callee, only that callee runs.
Senders == IF Idle THEN Addr ELSE {pending.to}

ObservesLedger == account \in {"template", "clone", "I1", "MerchantNPC"}

ObservesFactory == account = "factory"

\* The receipt callback of _safeMint forwards all gas: its callee may call any
\* handler.  transfer forwards the 2300 gas stipend, too little for a call that
\* writes storage: its callee may try the handlers that pay out.  sendValue
\* forwards all gas.
Callable(op) ==
    \/ Idle
    \/ pending.kind \in {"safeMint", "sendValue"}
    \/ op \in {"buyItem", "withdrawProfit"}

NoSales == [m \in MerchantIds |-> [i \in ItemIds |-> [initialQuantity |-> 0, sold |-> 0]]]

NothingSaved == [ledger |-> EmptyLedger, sales |-> NoSales]

\* What the handler does when the callee of its external call reverts:
\* transfer and _safeMint pass the revert on, which restores the storage S the
\* transaction started from (L is the storage at the call).
\* A handler that ignores the failure of its external call and goes on.
calleeReverted_ignored(S, L) == L

calleeReverted(S, L) == S

\* A successful call of `op` whose handler gave result R; S is `sales` after it.
Apply(op, R, S) ==
    /\ ObservesLedger
    /\ Callable(op)
    /\ R.err = "ok"
    /\ UNCHANGED <<account, factory, clones>>
    /\ sales' = S
    /\ IF R.call.kind = "none"
       THEN /\ ledger' = R.L
            /\ UNCHANGED <<pending, saved>>
       ELSE IF Idle /\ isContract(R.call.to)
       THEN /\ ledger' = R.L
            /\ pending' = R.call
            /\ saved' = [ledger |-> ledger, sales |-> sales]
       ELSE /\ ledger' = resume(R.L, R.call)
            /\ UNCHANGED <<pending, saved>>

Initialize(name, owner) ==
    Apply("initialize", initialize(ledger, name, owner), sales)

MintMerchant(to, name) ==
    /\ ledger.tokenIdCounter < MaxTokens
    /\ Apply("mintMerchant", mintMerchant(ledger, to, name), sales)

AddItem(sender, m, name, price, quantity) ==
    /\ ledger.inventories[m].itemCount < MaxItems
    /\ Apply("addItem", addItem(ledger, sender, m, name, price, quantity),
             [sales EXCEPT ![m][ledger.inventories[m].itemCount] =
                 [initialQuantity |-> quantity, sold |-> 0]])

RestockItem(sender, m, itemId, quantity) ==
    Apply("restockItem", restockItem(ledger, sender, m, itemId, quantity),
          [sales EXCEPT ![m][itemId] =
              [initialQuantity |-> ledger.inventories[m].items[itemId].quantity + quantity,
               sold |-> 0]])

ToggleItem(sender, m, itemId) ==
    Apply("toggleItem", toggleItem(ledger, sender, m, itemId), sales)

BuyItem(sender, value, m, itemId, quantity) ==
    Apply("buyItem", buyItem(ledger, sender, value, m, itemId, quantity),
          [sales EXCEPT ![m][itemId].sold = @ + quantity])

WithdrawProfit(sender, m) ==
    Apply("withdrawProfit", withdrawProfit(ledger, sender, m), sales)

TransferFrom(sender, to, tokenId) ==
    Apply("transferFrom", transferFrom(ledger, sender, to, tokenId), sales)

Approve(sender, to, tokenId) ==
    Apply("approve", approve(ledger, sender, to, tokenId), sales)

\* The callee returns: the waiting handler runs to its end.
CalleeReturns ==
    /\ ~Idle
    /\ ledger' = resume(ledger, pending)
    /\ pending' = NoCall
    /\ saved' = NothingSaved
    /\ UNCHANGED <<account, factory, clones, sales>>

\* The callee reverts.
CalleeReverts ==
    /\ ~Idle
    /\ ledger' = calleeReverted(saved.ledger, ledger)
    /\ sales' = saved.sales
    /\ pending' = NoCall
    /\ saved' = NothingSaved
    /\ UNCHANGED <<account, factory, clones>>

FApply(op, R) ==
    /\ ObservesFactory
    /\ R.err = "ok"
    /\ factory' = R.F
    /\ clones' = R.C
    /\ UNCHANGED <<account, ledger, pending, saved, sales>>

\* registerAIAgent does not read msg.sender: any sender's call does the same.
RegisterAIAgent(sender, agent) ==
    /\ sender \in Addr
    /\ FApply("registerAIAgent", registerAIAgent(factory, clones, agent))

CreateMerchant(sender, name, accepts) ==
    /\ Len(clones) < MaxClones
    /\ FApply("createMerchant", createMerchant(factory, clones, sender, name, accepts))

-----------------------------------------------------------------------------

Init ==
    /\ account \in {"template", "clone", "factory"}
    /\ ledger = IF account = "clone" THEN EmptyLedger ELSE constructor
    /\ factory = EmptyFactory
    /\ clones = << >>
    /\ pending = NoCall
    /\ saved = NothingSaved
    /\ sales = NoSales

Next ==
    \/ \E name \in Names, owner \in Addr \cup {Zero} : Initialize(name, owner)
    \/ \E to \in Addr \cup {Zero}, name \in Names : MintMerchant(to, name)
    \/ \E s \in Senders, m \in MerchantIds, name \in Names, price \in Args, q \in Args :
          AddItem(s, m, name, price, q)
    \/ \E s \in Senders, m \in MerchantIds, i \in ItemIds, q \in Args :
          RestockItem(s, m, i, q)
    \/ \E s \in Senders, m \in MerchantIds, i \in ItemIds : ToggleItem(s, m, i)
    \/ \E s \in Senders, v \in Values, m \in MerchantIds, i \in ItemIds, q \in Args :
          BuyItem(s, v, m, i, q)
    \/ \E s \in Senders, m \in MerchantIds : WithdrawProfit(s, m)
    \/ \E s \in Senders, to \in Addr \cup {Zero}, m \in MerchantIds : TransferFrom(s, to, m)
    \/ \E s \in Senders, to \in Addr \cup {Zero}, m \in MerchantIds : Approve(s, to, m)
    \/ CalleeReturns
    \/ CalleeReverts
    \/ \E s \in Addr, agent \in Addr : RegisterAIAgent(s, agent)
    \/ \E s \in Addr, name \in Names, accepts \in BOOLEAN : CreateMerchant(s, name, accepts)

Spec == Init /\ [][Next]_vars

-----------------------------------------------------------------------------
\* MerchantNPC, the legacy merchant contract.  Its storage is kept in the same
\* record: _nextTokenId in tokenIdCounter, Ownable's owner in merchantOwner,
\* _inventories[tokenId] (an array) in inventories[tokenId] with its length in
\* itemCount, Item.qty in quantity, Item.active in isActive, _profits[tokenId]
\* in merchants[tokenId].totalProfit, _merchantNames[tokenId] in
\* merchants[tokenId].name.

\* Ownable's constructor makes the deployer the owner.
MerchantNPC_constructor(deployer) == [EmptyLedger EXCEPT !.merchantOwner = deployer]

\* The check of the modifier onlyMerchantController, after ownerOf.
onlyMerchantController(L, sender, tokenId) ==
    ownerOf(L, tokenId) = sender \/ getApproved(L, tokenId) = sender

\* _getItem: the index is within the array.
hasItem(L, tokenId, index) == index < L.inventories[tokenId].itemCount

MerchantNPC_mintMerchant(L, sender, to, merchantName) ==
    IF sender # L.merchantOwner THEN Revert(L, "OwnableUnauthorized")
    ELSE IF to = Zero THEN Revert(L, "InvalidRecipient")
    ELSE LET tokenId == L.tokenIdCounter + 1
         IN  safeMint([L EXCEPT !.tokenIdCounter = tokenId],
                      "MerchantNPC.mintMerchant", to, tokenId, merchantName)

MerchantNPC_addItem(L, sender, tokenId, name, price, qty) ==
    IF ~exists(L, tokenId) THEN Revert(L, "ERC721InvalidTokenId")
    ELSE IF ~onlyMerchantController(L, sender, tokenId) THEN Revert(L, "Unauthorized")
    ELSE IF name = "" \/ price = 0 \/ qty = 0 THEN Revert(L, "InvalidItemData")
    ELSE LET index == L.inventories[tokenId].itemCount
         IN  Return([L EXCEPT
                 !.inventories[tokenId].itemCount = @ + 1,
                 !.inventories[tokenId].items[index] =
                     [name |-> name, price |-> price,
                      quantity |-> qty, isActive |-> TRUE]])

\* A buyItem that takes any payment of at least the price.
MerchantNPC_buyItem_atLeastPrice(L, sender, value, tokenId, index) ==
    IF isEntered(L) THEN Revert(L, "ReentrantCall")
    ELSE IF ~exists(L, tokenId) THEN Revert(L, "UnknownMerchant")
    ELSE IF ~hasItem(L, tokenId, index) THEN Revert(L, "InvalidItemIndex")
    ELSE LET item == L.inventories[tokenId].items[index]
             qty == (item.quantity - 1) % (UintMax + 1)
         IN  IF ~item.isActive THEN Revert(L, "ItemInactive")
             ELSE IF item.quantity = 0 THEN Revert(L, "ItemOutOfStock")
             ELSE IF value < item.price THEN Revert(L, "IncorrectPayment")
             ELSE IF L.merchants[tokenId].totalProfit + value > UintMax
                 THEN Revert(L, "Panic")
             ELSE Return([L EXCEPT
                     !.balance = @ + value,
                     !.inventories[tokenId].items[index].quantity = qty,
                     !.inventories[tokenId].items[index].isActive = (qty # 0),
                     !.merchants[tokenId].totalProfit = @ + value])

MerchantNPC_buyItem(L, sender, value, tokenId, index) ==
    IF isEntered(L) THEN Revert(L, "ReentrantCall")
    ELSE IF ~exists(L, tokenId) THEN Revert(L, "UnknownMerchant")
    ELSE IF ~hasItem(L, tokenId, index) THEN Revert(L, "InvalidItemIndex")
    ELSE LET item == L.inventories[tokenId].items[index]
             qty == (item.quantity - 1) % (UintMax + 1)
         IN  IF ~item.isActive THEN Revert(L, "ItemInactive")
             ELSE IF item.quantity = 0 THEN Revert(L, "ItemOutOfStock")
             ELSE IF value # item.price THEN Revert(L, "IncorrectPayment")
             ELSE IF L.merchants[tokenId].totalProfit + value > UintMax
                 THEN Revert(L, "Panic")
             ELSE Return([L EXCEPT
                     !.balance = @ + value,
                     !.inventories[tokenId].items[index].quantity = qty,
                     !.inventories[tokenId].items[index].isActive = (qty # 0),
                     !.merchants[tokenId].totalProfit = @ + value])

\* A sellItem that puts an item on sale whatever its quantity.
MerchantNPC_sellItem_anyQuantity(L, sender, tokenId, index, newPrice) ==
    IF ~exists(L, tokenId) THEN Revert(L, "ERC721InvalidTokenId")
    ELSE IF ~onlyMerchantController(L, sender, tokenId) THEN Revert(L, "Unauthorized")
    ELSE IF ~hasItem(L, tokenId, index) THEN Revert(L, "InvalidItemIndex")
    ELSE IF newPrice = 0 THEN Revert(L, "InvalidItemData")
    ELSE Return([L EXCEPT !.inventories[tokenId].items[index].price = newPrice,
                          !.inventories[tokenId].items[index].isActive = TRUE])

MerchantNPC_sellItem(L, sender, tokenId, index, newPrice) ==
    IF ~exists(L, tokenId) THEN Revert(L, "ERC721InvalidTokenId")
    ELSE IF ~onlyMerchantController(L, sender, tokenId) THEN Revert(L, "Unauthorized")
    ELSE IF ~hasItem(L, tokenId, index) THEN Revert(L, "InvalidItemIndex")
    ELSE IF L.inventories[tokenId].items[index].quantity = 0
        THEN Revert(L, "ItemOutOfStock")
    ELSE IF newPrice = 0 THEN Revert(L, "InvalidItemData")
    ELSE Return([L EXCEPT !.inventories[tokenId].items[index].price = newPrice,
                          !.inventories[tokenId].items[index].isActive = TRUE])

MerchantNPC_restockItem(L, sender, tokenId, index, additionalQty) ==
    IF ~exists(L, tokenId) THEN Revert(L, "ERC721InvalidTokenId")
    ELSE IF ~onlyMerchantController(L, sender, tokenId) THEN Revert(L, "Unauthorized")
    ELSE IF additionalQty = 0 THEN Revert(L, "InvalidItemData")
    ELSE IF ~hasItem(L, tokenId, index) THEN Revert(L, "InvalidItemIndex")
    ELSE IF L.inventories[tokenId].items[index].quantity + additionalQty > UintMax
        THEN Revert(L, "Panic")
    ELSE Return([L EXCEPT !.inventories[tokenId].items[index].quantity = @ + additionalQty,
                          !.inventories[tokenId].items[index].isActive = TRUE])

MerchantNPC_retireItem(L, sender, tokenId, index) ==
    IF ~exists(L, tokenId) THEN Revert(L, "ERC721InvalidTokenId")
    ELSE IF ~onlyMerchantController(L, sender, tokenId) THEN Revert(L, "Unauthorized")
    ELSE IF ~hasItem(L, tokenId, index) THEN Revert(L, "InvalidItemIndex")
    ELSE Return([L EXCEPT !.inventories[tokenId].items[index].isActive = FALSE])

\* The payout is made with sendValue: a call that forwards all gas.
MerchantNPC_withdrawProfit(L, sender, tokenId) ==
    IF isEntered(L) THEN Revert(L, "ReentrantCall")
    ELSE IF ~exists(L, tokenId) THEN Revert(L, "UnknownMerchant")
    ELSE IF ownerOf(L, tokenId) # sender THEN Revert(L, "Unauthorized")
    ELSE LET balance == L.merchants[tokenId].totalProfit
         IN  IF balance = 0 THEN Revert(L, "NoProfitAvailable")
             ELSE IF L.balance < balance THEN Revert(L, "InsufficientBalance")
             ELSE Calls([nonReentrantEnter(L) EXCEPT
                            !.merchants[tokenId].totalProfit = 0,
                            !.balance = @ - balance],
                        [NoCall EXCEPT !.kind = "sendValue",
                                       !.op = "MerchantNPC.withdrawProfit",
                                       !.to = sender, !.amount = balance])

NPCMintMerchant(sender, to, merchantName) ==
    /\ ledger.tokenIdCounter < MaxTokens
    /\ Apply("MerchantNPC.mintMerchant",
             MerchantNPC_mintMerchant(ledger, sender, to, merchantName), sales)

NPCAddItem(sender, tokenId, name, price, qty) ==
    /\ ledger.inventories[tokenId].itemCount < MaxItems
    /\ Apply("MerchantNPC.addItem",
             MerchantNPC_addItem(ledger, sender, tokenId, name, price, qty), sales)

NPCBuyItem(sender, value, tokenId, index) ==
    Apply("MerchantNPC.buyItem",
          MerchantNPC_buyItem(ledger, sender, value, tokenId, index), sales)

NPCSellItem(sender, tokenId, index, newPrice) ==
    Apply("MerchantNPC.sellItem",
          MerchantNPC_sellItem(ledger, sender, tokenId, index, newPrice), sales)

NPCRestockItem(sender, tokenId, index, additionalQty) ==
    Apply("MerchantNPC.restockItem",
          MerchantNPC_restockItem(ledger, sender, tokenId, index, additionalQty), sales)

NPCRetireItem(sender, tokenId, index) ==
    Apply("MerchantNPC.retireItem",
          MerchantNPC_retireItem(ledger, sender, tokenId, index), sales)

NPCWithdrawProfit(sender, tokenId) ==
    Apply("MerchantNPC.withdrawProfit",
          MerchantNPC_withdrawProfit(ledger, sender, tokenId), sales)

NPCInit ==
    /\ account = "MerchantNPC"
    /\ \E deployer \in Addr : ledger = MerchantNPC_constructor(deployer)
    /\ factory = EmptyFactory
    /\ clones = << >>
    /\ pending = NoCall
    /\ saved = NothingSaved
    /\ sales = NoSales

NPCNext ==
    \/ \E s \in Senders, to \in Addr \cup {Zero}, name \in Names : NPCMintMerchant(s, to, name)
    \/ \E s \in Senders, m \in MerchantIds, name \in Names, price \in Args, q \in Args :
          NPCAddItem(s, m, name, price, q)
    \/ \E s \in Senders, v \in Values, m \in MerchantIds, i \in ItemIds :
          NPCBuyItem(s, v, m, i)
    \/ \E s \in Senders, m \in MerchantIds, i \in ItemIds, price \in Args :
          NPCSellItem(s, m, i, price)
    \/ \E s \in Senders, m \in MerchantIds, i \in ItemIds, q \in Args :
          NPCRestockItem(s, m, i, q)
    \/ \E s \in Senders, m \in MerchantIds, i \in ItemIds : NPCRetireItem(s, m, i)
    \/ \E s \in Senders, m \in MerchantIds : NPCWithdrawProfit(s, m)
    \/ \E s \in Senders, to \in Addr \cup {Zero}, m \in MerchantIds : TransferFrom(s, to, m)
    \/ \E s \in Senders, to \in Addr \cup {Zero}, m \in MerchantIds : Approve(s, to, m)
    \/ CalleeReturns
    \/ CalleeReverts

SpecNPC == NPCInit /\ [][NPCNext]_vars

-----------------------------------------------------------------------------
\* MerchantFactory, the legacy factory: createMerchant deploys a MerchantNPC
\* of its own, mints token 1 to itself, adds the first item, and hands the
\* contract and the token over to the creator.  The merchants it deployed are
\* kept in `clones` by address: the k-th deployed has address k.

\* address(this) inside the factory.
Factory == "F"

\* MIN_INITIAL_STOCK = 1.  MIN_ITEM_PRICE = 0.001 ether, scaled into the narrow
\* type: prices 0 and 1 lie below it, price 2 does not.
MIN_INITIAL_STOCK == 1
MIN_ITEM_PRICE == 2

\* A merchant name of 33 bytes.
LongName == "ThisMerchantNameHasThirtyThreeByte"

FactoryNames == Names \cup {LongName}

\* bytes(name).length
bytesLength(name) == IF name = "" THEN 0 ELSE IF name = LongName THEN 33 ELSE 1

\* Merchant addresses: those the factory deploys and two it never deploys.
MerchantAddrs == 1..(MaxClones + 2)

EmptyMerchantFactory ==
    [ownerToMerchants  |-> [a \in Addr |-> << >>],
     merchantToOwner   |-> [k \in MerchantAddrs |-> Zero],
     merchantToAIAgent |-> [k \in MerchantAddrs |-> Zero],
     allMerchants      |-> << >>,
     totalMerchants    |-> 0]

\* What the creator does in its receipt callback of safeTransferFrom when it is
\* a contract: revert, return at once, or first call back: into the merchant
\* it now owns (addItem, transferFrom) or into the factory (createMerchant).
Callbacks == {"reverts", "returns", "addItem", "transferFrom", "createMerchant"}

\* A createMerchant that leaves out transferOwnership.
deployMerchant_keepsOwnership(sender, merchantName, itemName, initialStock, itemPrice) ==
    LET M0 == MerchantNPC_constructor(Factory)
        R1 == MerchantNPC_mintMerchant(M0, Factory, Factory, merchantName)
        M1 == resume(R1.L, R1.call)
        tokenId == M1.tokenIdCounter
        R2 == MerchantNPC_addItem(M1, Factory, tokenId, itemName, itemPrice, initialStock)
        R4 == transferFrom(R2.L, Factory, sender, tokenId)
    IN  IF R1.err # "ok" THEN Revert(M0, R1.err)
        ELSE IF R2.err # "ok" THEN Revert(M0, R2.err)
        ELSE IF R4.err # "ok" THEN Revert(M0, R4.err)
        ELSE R4

\* createMerchant from `new MerchantNPC()` up to the transfer of the token:
\* the factory is the recipient of the mint and accepts it (onERC721Received).
deployMerchant(sender, merchantName, itemName, initialStock, itemPrice) ==
    LET M0 == MerchantNPC_constructor(Factory)
        R1 == MerchantNPC_mintMerchant(M0, Factory, Factory, merchantName)
        M1 == resume(R1.L, R1.call)
        tokenId == M1.tokenIdCounter
        R2 == MerchantNPC_addItem(M1, Factory, tokenId, itemName, itemPrice, initialStock)
        M3 == [R2.L EXCEPT !.merchantOwner = sender]
        R4 == transferFrom(M3, Factory, sender, tokenId)
    IN  IF R1.err # "ok" THEN Revert(M0, R1.err)
        ELSE IF R2.err # "ok" THEN Revert(M0, R2.err)
        ELSE IF R4.err # "ok" THEN Revert(M0, R4.err)
        ELSE R4

\* The calls the creator makes into its merchant from the receipt callback.
calledBack(M, sender, callback) ==
    IF callback = "addItem"
    THEN MerchantNPC_addItem(M, sender, 1, "N", 1, 1)
    ELSE IF callback = "transferFrom"
    THEN transferFrom(M, sender, "A", 1)
    ELSE Return(M)

\* An update of the registries that enters the merchant in allMerchants twice.
recordMerchant_twice(F, sender, merchantAddress) ==
    [F EXCEPT !.ownerToMerchants[sender] = Append(@, merchantAddress),
              !.merchantToOwner[merchantAddress] = sender,
              !.allMerchants = Append(Append(@, merchantAddress), merchantAddress),
              !.totalMerchants = @ + 1]

\* "Update mappings"
recordMerchant(F, sender, merchantAddress) ==
    [F EXCEPT !.ownerToMerchants[sender] = Append(@, merchantAddress),
              !.merchantToOwner[merchantAddress] = sender,
              !.allMerchants = Append(@, merchantAddress),
              !.totalMerchants = @ + 1]

RECURSIVE MerchantFactory_createMerchant(_, _, _, _, _, _, _, _)
MerchantFactory_createMerchant(F, C, sender, merchantName, itemName, initialStock, itemPrice, callback) ==
    IF bytesLength(merchantName) = 0 \/ bytesLength(merchantName) > 32
    THEN FRevert(F, C, "InvalidName")
    ELSE IF initialStock < MIN_INITIAL_STOCK THEN FRevert(F, C, "InvalidStock")
    ELSE IF itemPrice < MIN_ITEM_PRICE THEN FRevert(F, C, "InvalidPrice")
    ELSE LET merchantAddress == Len(C) + 1
             D == deployMerchant(sender, merchantName, itemName, initialStock, itemPrice)
             B == calledBack(D.L, sender, callback)
             \* the creator's own createMerchant from inside the callback
             N == IF isContract(sender) /\ callback = "createMerchant"
                  THEN MerchantFactory_createMerchant(
                           F, Append(C, D.L), sender, merchantName, itemName,
                           initialStock, itemPrice, "returns")
                  ELSE FReturn(F, Append(C, B.L))
         IN  IF D.err # "ok" THEN FRevert(F, C, D.err)
             ELSE IF ~isContract(sender)
                 THEN FReturn(recordMerchant(F, sender, merchantAddress), Append(C, D.L))
             ELSE IF callback = "reverts" \/ B.err # "ok" \/ N.err # "ok"
                 THEN FRevert(F, C, "ERC721InvalidReceiver")
             ELSE FReturn(recordMerchant(N.F, sender, merchantAddress), N.C)

\* registerAIAgent without its check of the recorded owner.
MerchantFactory_registerAIAgent_anyCaller(F, C, sender, merchantAddress, aiAgent) ==
    FReturn([F EXCEPT !.merchantToAIAgent[merchantAddress] = aiAgent], C)

MerchantFactory_registerAIAgent(F, C, sender, merchantAddress, aiAgent) ==
    IF F.merchantToOwner[merchantAddress] # sender
    THEN FRevert(F, C, "NotMerchantOwner")
    ELSE FReturn([F EXCEPT !.merchantToAIAgent[merchantAddress] = aiAgent], C)

MerchantFactory_isMerchant(F, merchantAddress) ==
    F.merchantToOwner[merchantAddress] # Zero

ObservesMerchantFactory == account = "MerchantFactory"

\* A successful call of the legacy factory whose handler gave result R.
MFApply(R) ==
    /\ ObservesMerchantFactory
    /\ R.err = "ok"
    /\ factory' = R.F
    /\ clones' = R.C
    /\ UNCHANGED <<account, ledger, pending, saved, sales>>

\* How many merchants a createMerchant with this callback deploys.
Deploys(sender, callback) ==
    IF isContract(sender) /\ callback = "createMerchant" THEN 2 ELSE 1

MFCreateMerchant(sender, merchantName, itemName, initialStock, itemPrice, callback) ==
    /\ ObservesMerchantFactory
    /\ Len(clones) + Deploys(sender, callback) <= MaxClones
    /\ MFApply(MerchantFactory_createMerchant(factory, clones, sender, merchantName,
                                              itemName, initialStock, itemPrice, callback))

MFRegisterAIAgent(sender, merchantAddress, aiAgent) ==
    MFApply(MerchantFactory_registerAIAgent(factory, clones, sender,
                                            merchantAddress, aiAgent))

\* Both factories: the clone factory and the legacy one.
FactoryInit ==
    /\ account \in {"factory", "MerchantFactory"}
    /\ ledger = constructor
    /\ factory = IF account = "factory" THEN EmptyFactory ELSE EmptyMerchantFactory
    /\ clones = << >>
    /\ pending = NoCall
    /\ saved = NothingSaved
    /\ sales = NoSales

FactoryNext ==
    \/ \E s \in Addr, agent \in Addr : RegisterAIAgent(s, agent)
    \/ \E s \in Addr, name \in Names, accepts \in BOOLEAN : CreateMerchant(s, name, accepts)
    \/ \E s \in Addr, merchantName \in FactoryNames, itemName \in Names,
          initialStock \in Args, itemPrice \in Args, callback \in Callbacks :
          MFCreateMerchant(s, merchantName, itemName, initialStock, itemPrice, callback)
    \/ \E s \in Addr, k \in MerchantAddrs, agent \in Addr \cup {Zero} :
          MFRegisterAIAgent(s, k, agent)

SpecFactory == FactoryInit /\ [][FactoryNext]_vars

-----------------------------------------------------------------------------
\* The example scenario: an instance I1 cloned from the template, initialized,
\* stocked with an item of price 10 and quantity 5, bought from with 2 and 10
\* units tendering 20, 25 and 100.

ScenarioPrices == {10}

ScenarioStock == {5}

ScenarioQuantities == {2, 10}

ScenarioTendered == {20, 25, 100}

ScenarioInit ==
    /\ account = "I1"
    /\ ledger = EmptyLedger
    /\ factory = EmptyFactory
    /\ clones = << >>
    /\ pending = NoCall
    /\ saved = NothingSaved
    /\ sales = NoSales

ScenarioNext ==
    \/ \E owner \in Addr : Initialize("N", owner)
    \/ \E s \in Senders, m \in MerchantIds, price \in ScenarioPrices, q \in ScenarioStock :
          AddItem(s, m, "N", price, q)
    \/ \E s \in Senders, v \in ScenarioTendered, m \in MerchantIds, i \in ItemIds,
          q \in ScenarioQuantities :
          BuyItem(s, v, m, i, q)
    \/ \E s \in Senders, m \in MerchantIds : WithdrawProfit(s, m)
    \/ CalleeReturns
    \/ CalleeReverts

SpecScenario == ScenarioInit /\ [][ScenarioNext]_vars

-----------------------------------------------------------------------------
\* Accessors and the argument sets of the calls

Quantity(L, m, i) == L.inventories[m].items[i].quantity

Price(L, m, i) == L.inventories[m].items[i].price

Active(L, m, i) == L.inventories[m].items[i].isActive

Profit(L, m) == L.merchants[m].totalProfit

Recipients == Addr \cup {Zero}

-----------------------------------------------------------------------------
\* C1: every successful buyItem(m, i, q) lowers the item's quantity by exactly
\* q and raises the merchant's profit by exactly price * q in one step, the
\* price being the one stored when the call is made.
C1_BuyMovesStockAndProfitTogether ==
    [][\A s \in Addr, v \in Values, m \in MerchantIds, i \in ItemIds, q \in Args :
          (sales'[m][i].sold = sales[m][i].sold + q /\ BuyItem(s, v, m, i, q)) =>
              /\ Quantity(ledger', m, i) = Quantity(ledger, m, i) - q
              /\ Profit(ledger', m) = Profit(ledger, m) + Price(ledger, m, i) * q
              /\ Price(ledger', m, i) = Price(ledger, m, i)]_vars

\* A buy of at least one unit at a non-zero price has been made on a merchant
\* that already held profit.
C1_Witness ==
    \E m \in MerchantIds, i \in ItemIds :
        /\ sales[m][i].sold > 0
        /\ Price(ledger, m, i) > 0
        /\ Profit(ledger, m) > Price(ledger, m, i) * sales[m][i].sold

\* C2 as claimed: a buyItem asking for more than the quantity on hand reverts
\* with InsufficientStock (here: on an initialized instance, with no call in
\* flight, for an item addItem has stored).
C2_AlwaysInsufficientStock ==
    (Idle /\ ledger.initialized) =>
        \A s \in Addr, v \in Values, m \in MerchantIds, i \in ItemIds, q \in Args :
            (i < ledger.inventories[m].itemCount /\ q > Quantity(ledger, m, i)) =>
                buyItem(ledger, s, v, m, i, q).err = "InsufficientStock"

\* C2 amended: a buyItem asking for more than the quantity on hand always
\* reverts, leaving the quantity and the profit as they were; the error is
\* InsufficientStock when the item is active, ItemNotActive when it is not
\* (ReentrantCall or NotInitialized when those checks, made first, fail).
C2_OversellReverts ==
    \A s \in Addr, v \in Values, m \in MerchantIds, i \in ItemIds, q \in Args :
        q > Quantity(ledger, m, i) =>
            LET R == buyItem(ledger, s, v, m, i, q)
            IN  /\ R.err = IF isEntered(ledger) THEN "ReentrantCall"
                           ELSE IF ~ledger.initialized THEN "NotInitialized"
                           ELSE IF ~Active(ledger, m, i) THEN "ItemNotActive"
                           ELSE "InsufficientStock"
                /\ Quantity(R.L, m, i) = Quantity(ledger, m, i)
                /\ Profit(R.L, m) = Profit(ledger, m)

\* An active item with stock left, part of it sold, of which more is asked
\* than is on hand.
C2_Witness ==
    \E m \in MerchantIds, i \in ItemIds, q \in Args :
        /\ Idle
        /\ Active(ledger, m, i)
        /\ sales[m][i].sold > 0
        /\ Quantity(ledger, m, i) > 0
        /\ q > Quantity(ledger, m, i)
        /\ buyItem(ledger, "A", UintMax, m, i, q).err = "InsufficientStock"

\* Every initialize on L reverts with AlreadyInitialized.
RejectsInitialize(L) ==
    \A name \in Names, owner \in Recipients :
        initialize(L, name, owner) = Revert(L, "AlreadyInitialized")

\* C3: once initialize has succeeded on an instance, a second initialize,
\* whatever its arguments, reverts with AlreadyInitialized and leaves the
\* instance as the first call left it.
C3_SecondInitializeRejected ==
    [][/\ ledger.initialized => RejectsInitialize(ledger)
       /\ \A name \in Names, owner \in Recipients :
              Initialize(name, owner) => RejectsInitialize(ledger')]_vars

\* A clone on which initialize has succeeded.
C3_Witness ==
    /\ account = "clone"
    /\ Idle
    /\ ledger.initialized
    /\ exists(ledger, 1)
    /\ ledger.merchants[1].name = "N"

\* The flag as of the last completed transaction.
CommittedInitialized ==
    IF Idle THEN ledger.initialized ELSE saved.ledger.initialized

\* Every ledger operation other than initialize reverts with NotInitialized.
RejectsAllButInitialize(L) ==
    /\ \A to \in Recipients, name \in Names :
          mintMerchant(L, to, name) = Revert(L, "NotInitialized")
    /\ \A s \in Addr, m \in MerchantIds, name \in Names, price \in Args, q \in Args :
          addItem(L, s, m, name, price, q) = Revert(L, "NotInitialized")
    /\ \A s \in Addr, m \in MerchantIds, i \in ItemIds, q \in Args :
          restockItem(L, s, m, i, q) = Revert(L, "NotInitialized")
    /\ \A s \in Addr, m \in MerchantIds, i \in ItemIds :
          toggleItem(L, s, m, i) = Revert(L, "NotInitialized")
    /\ \A s \in Addr, v \in Values, m \in MerchantIds, i \in ItemIds, q \in Args :
          buyItem(L, s, v, m, i, q) = Revert(L, "NotInitialized")
    /\ \A s \in Addr, m \in MerchantIds :
          withdrawProfit(L, s, m) = Revert(L, "NotInitialized")

\* C4: the initialized flag of an instance, once set by a completed
\* transaction, is never cleared, and it is set only by initialize on an
\* instance where it was clear; while it is clear every ledger operation but
\* initialize reverts and changes nothing; while it is set initialize reverts.
C4_InitializedOnce ==
    [][/\ CommittedInitialized => ledger'.initialized
       /\ (~ledger.initialized /\ ledger'.initialized) =>
              \E name \in Names, owner \in Recipients : Initialize(name, owner)
       /\ ~ledger.initialized => RejectsAllButInitialize(ledger)
       /\ ledger.initialized =>
              \A name \in Names, owner \in Recipients :
                  initialize(ledger, name, owner).err # "ok"]_vars

\* A clone that was initialized and on which an item has since been added.
C4_Witness ==
    /\ account = "clone"
    /\ Idle
    /\ ledger.initialized
    /\ \E m \in MerchantIds : ledger.inventories[m].itemCount > 0

\* C5 as claimed: on a template (an instance made by the constructor, not
\* cloned) no merchant is ever minted, no item is ever added, nothing is ever
\* bought and no profit is ever held for withdrawal.
C5_TemplateNeverUsable ==
    account = "template" =>
        /\ ledger.tokenIdCounter = 0
        /\ \A m \in MerchantIds :
              /\ ~exists(ledger, m)
              /\ ledger.inventories[m].itemCount = 0
              /\ Profit(ledger, m) = 0
              /\ \A i \in ItemIds : sales[m][i].sold = 0

\* C6: while a buyItem or withdrawProfit of an instance is in its refund or
\* payout transfer, every buyItem and withdrawProfit on the instance reverts
\* at once with ReentrantCall, and the next change of the instance is the end
\* of that transfer: the outer call completing, or rolling back.
C6_NonReentrant ==
    [][pending.kind = "transfer" =>
          /\ \A s \in Addr, v \in Values, m \in MerchantIds, i \in ItemIds, q \in Args :
                buyItem(ledger, s, v, m, i, q) = Revert(ledger, "ReentrantCall")
          /\ \A s \in Addr, m \in MerchantIds :
                withdrawProfit(ledger, s, m) = Revert(ledger, "ReentrantCall")
          /\ pending' = NoCall
          /\ \/ ledger' = nonReentrantExit(ledger)
             \/ ledger' = saved.ledger]_vars

\* A payout to a contract is in flight, and but for the lock the recipient
\* could buy from the instance.
C6_Witness ==
    /\ pending.kind = "transfer"
    /\ pending.op = "withdrawProfit"
    /\ isContract(pending.to)
    /\ isEntered(ledger)
    /\ \E v \in Values, m \in MerchantIds, i \in ItemIds, q \in Args :
          buyItem(nonReentrantExit(ledger), pending.to, v, m, i, q).err = "ok"

\* Every ledger handler that reverts on L gives back L.
LedgerRevertsKeepState(L) ==
    /\ \A name \in Names, owner \in Recipients :
          LET R == initialize(L, name, owner) IN R.err # "ok" => R.L = L
    /\ \A to \in Recipients, name \in Names :
          LET R == mintMerchant(L, to, name) IN R.err # "ok" => R.L = L
    /\ \A s \in Addr, m \in MerchantIds, name \in Names, price \in Args, q \in Args :
          LET R == addItem(L, s, m, name, price, q) IN R.err # "ok" => R.L = L
    /\ \A s \in Addr, m \in MerchantIds, i \in ItemIds, q \in Args :
          LET R == restockItem(L, s, m, i, q) IN R.err # "ok" => R.L = L
    /\ \A s \in Addr, m \in MerchantIds, i \in ItemIds :
          LET R == toggleItem(L, s, m, i) IN R.err # "ok" => R.L = L
    /\ \A s \in Addr, v \in Values, m \in MerchantIds, i \in ItemIds, q \in Args :
          LET R == buyItem(L, s, v, m, i, q) IN R.err # "ok" => R.L = L
    /\ \A s \in Addr, m \in MerchantIds :
          LET R == withdrawProfit(L, s, m) IN R.err # "ok" => R.L = L

\* Every factory handler that reverts gives back the factory and its clones.
FactoryRevertsKeepState(F, C) ==
    /\ \A agent \in Addr :
          LET R == registerAIAgent(F, C, agent)
          IN  R.err # "ok" => (R.F = F /\ R.C = C)
    /\ \A s \in Addr, name \in Names, accepts \in BOOLEAN :
          LET R == createMerchant(F, C, s, name, accepts)
          IN  R.err # "ok" => (R.F = F /\ R.C = C)

\* C7: a ledger or factory operation that fails leaves the state as it was
\* before the call: whatever the error a handler reverts with, and when the
\* recipient of a refund, of a payout or of a minted token rejects it, the
\* state is the one the transaction started from.
C7_FailureChangesNothing ==
    /\ [](LedgerRevertsKeepState(ledger) /\ FactoryRevertsKeepState(factory, clones))
    /\ [][CalleeReverts =>
              /\ ledger' = saved.ledger
              /\ sales' = saved.sales
              /\ pending' = NoCall
              /\ UNCHANGED <<factory, clones>>]_vars

\* A buy has debited the stock and credited the profit, and its refund to a
\* contract, which may reject it, is in flight.
C7_Witness ==
    /\ pending.kind = "transfer"
    /\ pending.op = "buyItem"
    /\ isContract(pending.to)
    /\ \E m \in MerchantIds :
          /\ Profit(ledger, m) > Profit(saved.ledger, m)
          /\ \E i \in ItemIds : Quantity(ledger, m, i) < Quantity(saved.ledger, m, i)

\* C8: withdrawProfit(m) succeeds only for the owner of merchant m and only
\* when its profit is not zero; it then pays the caller exactly the profit
\* held before the call and leaves the profit at zero; a call by anyone else
\* reverts and changes nothing.
C8_WithdrawOnlyOwnerAllProfit ==
    [][\A s \in Addr, m \in MerchantIds :
          LET R == withdrawProfit(ledger, s, m)
          IN  /\ (~exists(ledger, m) \/ ownerOf(ledger, m) # s \/ Profit(ledger, m) = 0) =>
                    (R.err # "ok" /\ R.L = ledger)
              /\ WithdrawProfit(s, m) =>
                    /\ ownerOf(ledger, m) = s
                    /\ Profit(ledger, m) > 0
                    /\ R.call.kind = "transfer"
                    /\ R.call.to = s
                    /\ R.call.amount = Profit(ledger, m)
                    /\ Profit(ledger', m) = 0
                    /\ ledger'.balance = ledger.balance - Profit(ledger, m)]_vars

\* The owner has withdrawn the proceeds of a sale: units were sold at a
\* non-zero price, the profit is back at zero and the instance holds nothing.
C8_Witness ==
    /\ Idle
    /\ ledger.balance = 0
    /\ \E m \in MerchantIds, i \in ItemIds :
          /\ exists(ledger, m)
          /\ sales[m][i].sold > 0
          /\ Price(ledger, m, i) > 0
          /\ Profit(ledger, m) = 0
          /\ ledger.merchants[m].owner = ownerOf(ledger, m)

\* C9 as claimed: the profit of a merchant whose token exists changes in a step
\* only by the cost of a successful buyItem, or to zero by a successful
\* withdrawProfit of a non-zero profit (the rollback of a failed transaction
\* aside, which undoes such changes).
C9_ProfitOnlyByBuyOrWithdraw ==
    [][\A m \in MerchantIds :
          (exists(ledger, m) /\ Profit(ledger', m) # Profit(ledger, m)) =>
              \/ CalleeReverts
              \/ \E s \in Addr, v \in Values, i \in ItemIds, q \in Args :
                    /\ BuyItem(s, v, m, i, q)
                    /\ Profit(ledger', m) = Profit(ledger, m) + Price(ledger, m, i) * q
              \/ \E s \in Addr :
                    /\ WithdrawProfit(s, m)
                    /\ Profit(ledger, m) > 0
                    /\ Profit(ledger', m) = 0]_vars

\* C10: for every item, the units sold by the successful buys since the item
\* was stocked are the stocked quantity less the quantity on hand, the
\* quantity on hand is never negative, and a buy of more than is on hand fails.
C10_StockConservation ==
    \A m \in MerchantIds, i \in ItemIds :
        /\ sales[m][i].sold = sales[m][i].initialQuantity - Quantity(ledger, m, i)
        /\ Quantity(ledger, m, i) \in 0..UintMax
        /\ \A s \in Addr, v \in Values, q \in Args :
              q > Quantity(ledger, m, i) => buyItem(ledger, s, v, m, i, q).err # "ok"

\* An item stocked with more than one unit, one of which has been sold.
C10_Witness ==
    \E m \in MerchantIds, i \in ItemIds :
        /\ Idle
        /\ sales[m][i].initialQuantity > 1
        /\ sales[m][i].sold > 0
        /\ Quantity(ledger, m, i) = sales[m][i].initialQuantity - sales[m][i].sold
        /\ Quantity(ledger, m, i) > 0

\* C11 as claimed: a buyItem that succeeds is on an item that is active and
\* has a quantity on hand above zero when the call is made, whatever the
\* quantity asked for (here for the items that addItem has stored).
C11_BuyNeedsActiveAndStock ==
    \A s \in Addr, v \in Values, m \in MerchantIds, i \in ItemIds, q \in Args :
        (i < ledger.inventories[m].itemCount /\ buyItem(ledger, s, v, m, i, q).err = "ok") =>
            (Active(ledger, m, i) /\ Quantity(ledger, m, i) > 0)

\* C12 as claimed: every stored item that is active or has a quantity above
\* zero has a price above zero, and no buyItem succeeds at a unit price of zero.
C12_StoredItemsHavePrice ==
    \A m \in MerchantIds, i \in ItemIds :
        /\ (Active(ledger, m, i) \/ Quantity(ledger, m, i) > 0) => Price(ledger, m, i) > 0
        /\ \A s \in Addr, v \in Values, q \in Args :
              buyItem(ledger, s, v, m, i, q).err = "ok" => Price(ledger, m, i) > 0

\* C13 as claimed: on an initialized instance addItem, restockItem and
\* toggleItem on an existing merchant pass the authorization check when the
\* caller is the merchant's owner or an identity the owner has approved (the
\* controller, as MerchantNPC.onlyMerchantController has it), and
\* revert with NotMerchantOwner, changing nothing, for every other caller.
C13_ControllerManagesItems ==
    (Idle /\ ledger.initialized) =>
        \A s \in Addr, m \in MerchantIds, i \in ItemIds :
            exists(ledger, m) =>
                LET Ra == addItem(ledger, s, m, "N", 1, 1)
                    Rr == restockItem(ledger, s, m, i, 1)
                    Rt == toggleItem(ledger, s, m, i)
                IN  IF onlyMerchantController(ledger, s, m)
                    THEN /\ Ra.err = "ok"
                         /\ Rr.err # "NotMerchantOwner"
                         /\ Rt.err = "ok"
                    ELSE /\ Ra = Revert(ledger, "NotMerchantOwner")
                         /\ Rr = Revert(ledger, "NotMerchantOwner")
                         /\ Rt = Revert(ledger, "NotMerchantOwner")

\* C14: createMerchant succeeds only for a caller registered as an agent
\* with the factory; for any other caller it reverts with NotAIAgent, creating
\* no instance and leaving both registries as they were.
C14_CreateOnlyByAgents ==
    /\ [](\A s \in Addr, name \in Names, accepts \in BOOLEAN :
             ~factory.isAIAgent[s] =>
                 createMerchant(factory, clones, s, name, accepts)
                     = FRevert(factory, clones, "NotAIAgent"))
    /\ [][\A s \in Addr, name \in Names, accepts \in BOOLEAN :
             CreateMerchant(s, name, accepts) => factory.isAIAgent[s]]_vars

\* A registered agent has created an instance while another identity is not
\* registered.
C14_Witness ==
    /\ account = "factory"
    /\ Len(factory.allMerchants) > 0
    /\ \E s \in Addr : ~factory.isAIAgent[s] /\ factory.merchantsByCreator[s] = << >>

\* The factory's administrative registrar: the account that deployed it.
Registrar == "A"

\* C15 as claimed: an agent is registered only by a call of the factory's
\* registrar, so an identity the registrar never registered is never an agent
\* and never creates an instance.
C15_OnlyRegistrarRegisters ==
    [][\A s \in Addr, agent \in Addr :
          (RegisterAIAgent(s, agent) /\ ~factory.isAIAgent[agent]) => s = Registrar]_vars

\* The stock of the example scenario: item 0 of merchant 1 at price 10 with
\* 5 units, active, no profit yet.
ScenarioStocked(L) ==
    /\ exists(L, 1)
    /\ ~isEntered(L)
    /\ Price(L, 1, 0) = 10
    /\ Quantity(L, 1, 0) = 5
    /\ Active(L, 1, 0)
    /\ Profit(L, 1) = 0

\* C16: a successful buyItem tendering more than the total cost refunds the
\* buyer exactly the difference and the instance keeps exactly the total cost;
\* tendering the total cost refunds nothing.  With price 10 and stock 5, a buy
\* of 2 tendering 25 gives change 5, stock 3 and profit 20, and a following buy
\* of 10 tendering 100 reverts with InsufficientStock, stock 3 and profit 20
\* unchanged.
C16_ExactChange ==
    /\ [](ScenarioStocked(ledger) =>
             \A s \in Addr :
                 LET R1 == buyItem(ledger, s, 25, 1, 0, 2)
                     L1 == resume(R1.L, R1.call)
                     R2 == buyItem(L1, s, 100, 1, 0, 10)
                 IN  /\ R1.err = "ok"
                     /\ R1.call.kind = "transfer"
                     /\ R1.call.to = s
                     /\ R1.call.amount = 5
                     /\ Quantity(L1, 1, 0) = 3
                     /\ Profit(L1, 1) = 20
                     /\ L1.balance = ledger.balance + 20
                     /\ R2 = Revert(L1, "InsufficientStock"))
    /\ [][\A s \in Addr, v \in ScenarioTendered, m \in MerchantIds, i \in ItemIds,
            q \in ScenarioQuantities :
             BuyItem(s, v, m, i, q) =>
                 LET totalCost == Price(ledger, m, i) * q
                     R == buyItem(ledger, s, v, m, i, q)
                 IN  /\ v >= totalCost
                     /\ ledger'.balance = ledger.balance + totalCost
                     /\ IF v > totalCost
                        THEN /\ R.call.kind = "transfer"
                             /\ R.call.to = s
                             /\ R.call.amount = v - totalCost
                        ELSE R.call.kind = "none"]_vars

\* The scenario after its first buy has completed: 3 units left, profit 20,
\* 20 held by the instance, of which more than the stock cannot be bought.
C16_Witness ==
    /\ account = "I1"
    /\ Idle
    /\ Price(ledger, 1, 0) = 10
    /\ Quantity(ledger, 1, 0) = 3
    /\ sales[1][0].sold = 2
    /\ Profit(ledger, 1) = 20
    /\ ledger.balance = 20
    /\ buyItem(ledger, "A", 100, 1, 0, 10).err = "InsufficientStock"

\* C17: a successful withdrawProfit leaves the merchant's profit at zero, no
\* step other than a successful buyItem on the merchant raises it again (the
\* rollback of a failed transaction aside, which undoes a withdrawal that
\* thereby did not succeed), and while it is zero every withdrawProfit on the
\* merchant reverts and transfers nothing: with NoProfit when the caller is
\* the owner, whatever happened since the withdrawal.
C17_SecondWithdrawFails ==
    /\ [](\A m \in MerchantIds :
             Profit(ledger, m) = 0 =>
                 \A s \in Addr :
                     LET R == withdrawProfit(ledger, s, m)
                     IN  /\ R.err # "ok"
                         /\ R.L = ledger
                         /\ R.call.kind = "none"
                         /\ (Idle /\ ledger.initialized /\ exists(ledger, m)
                                  /\ s = ownerOf(ledger, m)) => R.err = "NoProfit")
    /\ [][\A m \in MerchantIds :
             /\ (\E s \in Addr : WithdrawProfit(s, m)) => Profit(ledger', m) = 0
             /\ (Profit(ledger, m) = 0 /\ Profit(ledger', m) # 0) =>
                    \/ CalleeReverts
                    \/ \E s \in Addr, v \in Values, i \in ItemIds, q \in Args :
                          BuyItem(s, v, m, i, q)]_vars

\* The proceeds of a sale were withdrawn and the merchant's token has changed
\* hands: the owner is no longer the one the record names.
C17_Witness ==
    /\ Idle
    /\ ledger.balance = 0
    /\ \E m \in MerchantIds, i \in ItemIds :
          /\ exists(ledger, m)
          /\ sales[m][i].sold > 0
          /\ Price(ledger, m, i) > 0
          /\ Profit(ledger, m) = 0
          /\ ledger.merchants[m].owner # ownerOf(ledger, m)
          /\ withdrawProfit(ledger, ownerOf(ledger, m), m).err = "NoProfit"

\* The record initialize(name, owner) binds: merchant 1.
FirstMerchant(L, name, owner) ==
    /\ L.initialized
    /\ L.merchantOwner = owner
    /\ L.merchants[1] = [name |-> name, owner |-> owner, totalProfit |-> 0]

\* An instance as initialize(name, owner) alone leaves it: merchant 1 and no
\* other.
BoundByInitialize(L, name, owner) ==
    /\ FirstMerchant(L, name, owner)
    /\ L.tokenIdCounter = 1
    /\ \A m \in MerchantIds \ {1} : L.merchants[m] = EmptyMerchant /\ ~exists(L, m)

ItemCount(L, m) == L.inventories[m].itemCount

Item(L, m, i) == L.inventories[m].items[i]

\* C19: addItem reverts on an empty name, a zero price or a zero quantity;
\* otherwise the k-th successful addItem on a merchant stores the item under
\* identifier k - 1 (the item count before the call) with the given name, price
\* and quantity and active, raises the item count by one and leaves every other
\* item as it was; the item count never goes down and an identifier once given
\* keeps its name and price (the rollback of a failed transaction aside).
C19_AddItemSequential ==
    /\ [](\A s \in Addr, m \in MerchantIds, name \in Names, price \in Args, q \in Args :
             LET R == addItem(ledger, s, m, name, price, q)
             IN  /\ (name = "" \/ price = 0 \/ q = 0) => (R.err # "ok" /\ R.L = ledger)
                 /\ (~isEntered(ledger) /\ ledger.initialized /\ exists(ledger, m)
                       /\ s = ownerOf(ledger, m)) =>
                        R.err = IF name = "" THEN "InvalidName"
                                ELSE IF price = 0 THEN "InvalidPrice"
                                ELSE IF q = 0 THEN "InvalidQuantity"
                                ELSE "ok")
    /\ [][\A m \in MerchantIds :
             /\ CalleeReverts \/ ItemCount(ledger', m) >= ItemCount(ledger, m)
             /\ CalleeReverts \/
                   \A i \in ItemIds :
                       i < ItemCount(ledger, m) =>
                           /\ Item(ledger', m, i).name = Item(ledger, m, i).name
                           /\ Item(ledger', m, i).price = Item(ledger, m, i).price
             /\ \A s \in Addr, name \in Names, price \in Args, q \in Args :
                   (ItemCount(ledger', m) = ItemCount(ledger, m) + 1
                        /\ AddItem(s, m, name, price, q)) =>
                       /\ name # "" /\ price > 0 /\ q > 0
                       /\ Item(ledger', m, ItemCount(ledger, m)) =
                              [name |-> name, price |-> price,
                               quantity |-> q, isActive |-> TRUE]
                       /\ \A i \in ItemIds \ {ItemCount(ledger, m)} :
                              Item(ledger', m, i) = Item(ledger, m, i)
                       /\ \A n \in MerchantIds \ {m} :
                              ledger'.inventories[n] = ledger.inventories[n]]_vars

\* A second item has been added to a merchant whose first item has been
\* sold from and is still stored as it was added.
C19_Witness ==
    \E m \in MerchantIds :
        /\ Idle
        /\ ItemCount(ledger, m) = 2
        /\ Item(ledger, m, 0).name = "N"
        /\ Item(ledger, m, 1) = [name |-> "N", price |-> 1, quantity |-> 2, isActive |-> TRUE]
        /\ sales[m][0].sold > 0
        /\ sales[m][1].sold = 0

\* What C20 asks of a restock, on MerchantNPCCoreV2, where it holds:
\* restockItem reverts for a quantity of zero; for a quantity above zero it
\* raises the item's quantity by exactly that much and changes nothing else.
V2RestockOnlyAddsStock ==
    /\ [](\A s \in Addr, m \in MerchantIds, i \in ItemIds :
             LET R == restockItem(ledger, s, m, i, 0)
             IN  /\ R.err # "ok"
                 /\ R.L = ledger
                 /\ (~isEntered(ledger) /\ ledger.initialized /\ exists(ledger, m)
                       /\ s = ownerOf(ledger, m)) => R.err = "InvalidQuantity")
    /\ [][\A s \in Addr, m \in MerchantIds, i \in ItemIds, n \in Args :
             (Quantity(ledger', m, i) = Quantity(ledger, m, i) + n
                  /\ RestockItem(s, m, i, n)) =>
                 /\ n > 0
                 /\ ledger' = [ledger EXCEPT !.inventories[m].items[i].quantity = @ + n]]_vars

\* C20 as claimed, on the legacy MerchantNPC: restockItem reverts for a
\* quantity of zero; for a quantity above zero it raises the item's quantity
\* by exactly that much and changes nothing else: the item's active flag,
\* price and name, every other item and the merchant's profit are as before.
C20_RestockOnlyAddsStock ==
    [][\A s \in Addr, m \in MerchantIds, i \in ItemIds, n \in Args :
          (Quantity(ledger', m, i) = Quantity(ledger, m, i) + n
               /\ NPCRestockItem(s, m, i, n)) =>
              /\ n > 0
              /\ ledger' = [ledger EXCEPT !.inventories[m].items[i].quantity = @ + n]]_vars

-----------------------------------------------------------------------------
\* The registries of either factory

IsPrefix(s, t) == Len(s) <= Len(t) /\ SubSeq(t, 1, Len(s)) = s

\* What t has beyond its prefix s.
Beyond(s, t) == SubSeq(t, Len(s) + 1, Len(t))

Positions(seq, x) == {i \in 1..Len(seq) : seq[i] = x}

CreatorLists(F) ==
    IF account = "factory" THEN F.merchantsByCreator ELSE F.ownerToMerchants

InstanceCount(F) ==
    IF account = "factory" THEN getMerchantCount(F) ELSE F.totalMerchants

\* The instances created so far are the storages in `clones`, by address.
Created == 1..Len(clones)

\* A create call of either factory by sender s is taken.
CreateBy(s) ==
    \/ \E name \in Names, accepts \in BOOLEAN : CreateMerchant(s, name, accepts)
    \/ \E merchantName \in FactoryNames, itemName \in Names, initialStock \in Args,
          itemPrice \in Args, callback \in Callbacks :
          MFCreateMerchant(s, merchantName, itemName, initialStock, itemPrice, callback)

\* Every create call the factory rejects leaves registries and instances alone,
\* and it rejects an unauthorized caller and an invalid name, stock or price.
RejectedCreateChangesNothing ==
    IF account = "factory"
    THEN \A s \in Addr, name \in Names, accepts \in BOOLEAN :
            LET R == createMerchant(factory, clones, s, name, accepts)
            IN  /\ ~factory.isAIAgent[s] => R.err = "NotAIAgent"
                /\ R.err # "ok" => R.F = factory /\ R.C = clones
    ELSE \A s \in Addr, merchantName \in FactoryNames, itemName \in Names,
            initialStock \in Args, itemPrice \in Args, callback \in Callbacks :
            LET R == MerchantFactory_createMerchant(factory, clones, s, merchantName,
                         itemName, initialStock, itemPrice, callback)
            IN  /\ merchantName \in {"", LongName} => R.err = "InvalidName"
                /\ merchantName = "N" /\ initialStock = 0 => R.err = "InvalidStock"
                /\ merchantName = "N" /\ initialStock > 0 /\ itemPrice < MIN_ITEM_PRICE
                      => R.err = "InvalidPrice"
                /\ R.err # "ok" => R.F = factory /\ R.C = clones

-----------------------------------------------------------------------------
\* The merchant a createMerchant of the legacy factory hands over

\* Merchant M has token 1 owned by c, belongs to c, and holds one item, at
\* index 0, as given.
HandedOver(M, c, merchantName, itemName, initialStock, itemPrice) ==
    /\ M.tokenIdCounter = 1
    /\ ownerOf(M, 1) = c
    /\ M.merchantOwner = c
    /\ M.merchants[1].name = merchantName
    /\ M.inventories[1].itemCount = 1
    /\ M.inventories[1].items[0] =
          [name |-> itemName, price |-> itemPrice,
           quantity |-> initialStock, isActive |-> TRUE]

NewMerchants == (Len(clones) + 1)..Len(clones')

\* C22 as stated: after every successful createMerchant(merchantName,
\* itemName, initialStock, itemPrice) by c the new merchant has token 1 owned
\* by c, belongs to c and holds exactly the one item given.
C22_EveryCreatorGetsOneItemMerchant ==
    [][\A c \in Addr, merchantName \in FactoryNames, itemName \in Names,
          initialStock \in Args, itemPrice \in Args, callback \in Callbacks :
          MFCreateMerchant(c, merchantName, itemName, initialStock, itemPrice, callback)
          => HandedOver(clones'[Len(clones) + 1], c, merchantName, itemName,
                        initialStock, itemPrice)]_vars

\* C22, amended: the same for a creator that makes no call to the new merchant
\* from its token-receipt callback (an externally owned creator, or a contract
\* that returns from the callback or only calls the factory there): every
\* merchant the call creates is handed over so, and the factory keeps neither
\* the token nor the contract.
C22_CreatorGetsOneItemMerchant ==
    [][\A c \in Addr, merchantName \in FactoryNames, itemName \in Names,
          initialStock \in Args, itemPrice \in Args, callback \in Callbacks :
          /\ MFCreateMerchant(c, merchantName, itemName, initialStock, itemPrice, callback)
          /\ ~isContract(c) \/ callback \in {"returns", "createMerchant"}
          => \A k \in NewMerchants :
                /\ HandedOver(clones'[k], c, merchantName, itemName,
                              initialStock, itemPrice)
                /\ ownerOf(clones'[k], 1) # Factory
                /\ clones'[k].merchantOwner # Factory]_vars

\* The legacy factory has created a merchant for the contract X, which
\* accepted the token, and one for the externally owned A.
C22_Witness ==
    /\ account = "MerchantFactory"
    /\ Len(clones) = 2
    /\ HandedOver(clones[1], "X", "N", "N", 1, MIN_ITEM_PRICE)
    /\ HandedOver(clones[2], "A", "N", "N", 2, MIN_ITEM_PRICE)

-----------------------------------------------------------------------------
\* C23: in the legacy factory the owner recorded for a merchant is written
\* once, when the merchant is created, and is its creator; an address the
\* factory never created has none.  registerAIAgent(merchant, agent) by the
\* recorded owner succeeds and sets that merchant's agent and nothing else; by
\* anyone else it fails with NotMerchantOwner and changes nothing; and no other
\* call changes a recorded agent.
C23_OnlyRecordedOwnerRegistersAgent ==
    /\ [](account = "MerchantFactory" =>
            \A k \in MerchantAddrs :
               /\ k \in Created =>
                     /\ factory.merchantToOwner[k] \in Addr
                     /\ Positions(factory.ownerToMerchants[factory.merchantToOwner[k]], k) # {}
               /\ k \notin Created =>
                     /\ factory.merchantToOwner[k] = Zero
                     /\ ~MerchantFactory_isMerchant(factory, k)
               /\ \A s \in Addr, agent \in Addr \cup {Zero} :
                     LET R == MerchantFactory_registerAIAgent(factory, clones, s, k, agent)
                     IN  IF s = factory.merchantToOwner[k]
                         THEN /\ R.err = "ok"
                              /\ R.F = [factory EXCEPT !.merchantToAIAgent[k] = agent]
                              /\ R.C = clones
                         ELSE /\ R.err = "NotMerchantOwner"
                              /\ R.F = factory
                              /\ R.C = clones)
    /\ [][account = "MerchantFactory" =>
            \A k \in MerchantAddrs :
               /\ factory'.merchantToOwner[k] # factory.merchantToOwner[k]
                     => k \notin Created /\ k \in NewMerchants
               /\ factory'.merchantToAIAgent[k] # factory.merchantToAIAgent[k]
                     => /\ k \in Created
                        /\ MFRegisterAIAgent(factory.merchantToOwner[k], k,
                                             factory'.merchantToAIAgent[k])]_vars

\* X, recorded as the owner of merchant 1, has registered A as its agent; A is
\* not the recorded owner, and merchant 3 was never created.
C23_Witness ==
    /\ account = "MerchantFactory"
    /\ factory.merchantToOwner[1] = "X"
    /\ factory.merchantToAIAgent[1] = "A"
    /\ MerchantFactory_registerAIAgent(factory, clones, "A", 1, "X").err = "NotMerchantOwner"
    /\ MerchantFactory_registerAIAgent(factory, clones, "X", 3, "X").err = "NotMerchantOwner"

-----------------------------------------------------------------------------
\* The legacy buyItem reaches its payment check: the merchant and the item
\* exist, the item is active and in stock, and no guarded call is in flight.
OnSale(L, tokenId, index) ==
    /\ ~isEntered(L)
    /\ exists(L, tokenId)
    /\ hasItem(L, tokenId, index)
    /\ Active(L, tokenId, index)
    /\ Quantity(L, tokenId, index) > 0

\* C24: MerchantNPC.buyItem sells one unit for the item's current price.  A
\* call whose payment differs from the price fails and changes nothing, with
\* IncorrectPayment when the item is on sale; a call that succeeds paid the
\* price, and lowers the item's quantity by 1 and raises the merchant's profit
\* and the contract's balance by the price, leaving every other item, the
\* prices and the other merchants' profit as they were.
C24_BuyItemOneUnitForThePrice ==
    /\ [](\A s \in Addr, v \in Values, m \in MerchantIds, i \in ItemIds :
            LET R == MerchantNPC_buyItem(ledger, s, v, m, i)
            IN  /\ v # Price(ledger, m, i) => R.err # "ok" /\ R.L = ledger
                /\ v # Price(ledger, m, i) /\ OnSale(ledger, m, i)
                      => R.err = "IncorrectPayment"
                /\ R.err = "ok" => v = Price(ledger, m, i) /\ OnSale(ledger, m, i))
    /\ [][\A s \in Addr, v \in Values, m \in MerchantIds, i \in ItemIds :
            NPCBuyItem(s, v, m, i) =>
               /\ v = Price(ledger, m, i)
               /\ Quantity(ledger, m, i) >= 1
               /\ ledger' = [ledger EXCEPT
                     !.balance = @ + Price(ledger, m, i),
                     !.inventories[m].items[i].quantity = @ - 1,
                     !.inventories[m].items[i].isActive = (Quantity(ledger, m, i) # 1),
                     !.merchants[m].totalProfit = @ + Price(ledger, m, i)]]_vars

\* The two units of an item priced 1 have been bought, one at a time.
C24_Witness ==
    /\ account = "MerchantNPC"
    /\ Idle
    /\ hasItem(ledger, 1, 0)
    /\ Price(ledger, 1, 0) = 1
    /\ Quantity(ledger, 1, 0) = 0
    /\ Profit(ledger, 1) = 2
    /\ ledger.balance = 2

-----------------------------------------------------------------------------
\* The storage the recipient of a transfer sees, against the storage `S` the
\* transaction started from.

\* A buy of q units of item i of merchant m that refunds change: the units
\* are debited and the cost is credited, the balance holds the cost.
BuyApplied(S, L, m, i, q) ==
    LET cost == Price(S, m, i) * q
    IN  L = [S EXCEPT !.entered = TRUE,
                      !.balance = @ + cost,
                      !.inventories[m].items[i].quantity = @ - q,
                      !.merchants[m].totalProfit = @ + cost]

\* A withdrawal of merchant m's profit: the profit is zero, the balance is
\* lower by the payout.
WithdrawalApplied(S, L, m, payout) ==
    /\ Profit(S, m) = payout
    /\ L = [S EXCEPT !.entered = TRUE,
                     !.balance = @ - payout,
                     !.merchants[m].totalProfit = 0]

\* C25: whenever the recipient of a refund runs, the buy that refunds has
\* debited the units and credited the profit; whenever the recipient of a
\* payout runs, the merchant's profit is zero; and the storage stays so until
\* the transfer returns or reverts.
C25_MutateThenTransfer ==
    /\ [](pending.kind = "transfer" =>
            /\ pending.amount > 0
            /\ pending.op = "buyItem" =>
                  \E m \in MerchantIds, i \in ItemIds, q \in Args :
                     /\ q <= Quantity(saved.ledger, m, i)
                     /\ BuyApplied(saved.ledger, ledger, m, i, q)
            /\ pending.op = "withdrawProfit" =>
                  \E m \in MerchantIds :
                     /\ Profit(ledger, m) = 0
                     /\ WithdrawalApplied(saved.ledger, ledger, m, pending.amount)
            /\ pending.op \in {"buyItem", "withdrawProfit"})
    /\ [][/\ Idle /\ pending'.op = "buyItem" =>
               \A s \in Addr, v \in Values, m \in MerchantIds, i \in ItemIds, q \in Args :
                  BuyItem(s, v, m, i, q)
                  => /\ pending'.kind = "transfer" /\ pending'.to = s
                     /\ pending'.amount = v - Price(ledger, m, i) * q
                     /\ Quantity(ledger', m, i) = Quantity(ledger, m, i) - q
                     /\ Profit(ledger', m) = Profit(ledger, m) + Price(ledger, m, i) * q
          /\ Idle /\ pending'.op = "withdrawProfit" =>
               \A s \in Addr, m \in MerchantIds :
                  WithdrawProfit(s, m)
                  => /\ pending'.kind = "transfer" /\ pending'.to = s
                     /\ pending'.amount = Profit(ledger, m)
                     /\ Profit(ledger', m) = 0
          /\ pending.kind = "transfer" /\ pending'.kind = "transfer"
               => ledger' = ledger]_vars

\* The contract X is receiving the change of a buy of one unit priced 1 for
\* which it sent 2: the unit is debited and the profit credited.
C25_Witness ==
    /\ pending.kind = "transfer"
    /\ pending.op = "buyItem"
    /\ pending.to = "X"
    /\ pending.amount = 1
    /\ \E i \in ItemIds :
          /\ Quantity(ledger, 1, i) = Quantity(saved.ledger, 1, i) - 1
          /\ Profit(ledger, 1) = Profit(saved.ledger, 1) + 1

-----------------------------------------------------------------------------
\* Every stored amount is within the unsigned type.
InRange(L) ==
    \A m \in MerchantIds :
       /\ Profit(L, m) \in 0..UintMax
       /\ \A i \in ItemIds : /\ Quantity(L, m, i) \in 0..UintMax
                             /\ Price(L, m, i) \in 0..UintMax

\* C26: on an initialized instance with no guarded call in flight, buy reports
\* the first failing precondition in the order: item inactive (ItemNotActive),
\* quantity above the stock (InsufficientStock), price * quantity beyond the
\* type (arithmetic panic), payment below the total cost (InsufficientPayment);
\* a profit credit or a restock that would pass the type's maximum fails with
\* the arithmetic panic, every stored amount stays within the type, and a buy
\* or restock that succeeds stores the exact difference and sums.
C26_BuyChecksInOrderNoWrap ==
    /\ [](/\ InRange(ledger)
          /\ ledger.initialized /\ ~isEntered(ledger) =>
               \A s \in Addr, v \in Values, m \in MerchantIds, i \in ItemIds, q \in Args :
                  LET R == buyItem(ledger, s, v, m, i, q)
                      cost == Price(ledger, m, i) * q
                  IN  IF ~Active(ledger, m, i) THEN R.err = "ItemNotActive"
                      ELSE IF q > Quantity(ledger, m, i) THEN R.err = "InsufficientStock"
                      ELSE IF cost > UintMax THEN R.err = "Panic"
                      ELSE IF v < cost THEN R.err = "InsufficientPayment"
                      ELSE IF Profit(ledger, m) + cost > UintMax THEN R.err = "Panic"
                      ELSE R.err = "ok"
          /\ \A s \in Addr, m \in MerchantIds, i \in ItemIds, q \in Args :
                LET R == restockItem(ledger, s, m, i, q)
                IN  /\ Quantity(ledger, m, i) + q > UintMax => R.err # "ok"
                    /\ Quantity(ledger, m, i) + q > UintMax /\ q > 0
                       /\ ledger.initialized /\ exists(ledger, m) /\ ownerOf(ledger, m) = s
                          => R.err = "Panic")
    /\ [][/\ \A m \in MerchantIds, i \in ItemIds :
               sales'[m][i].sold > sales[m][i].sold =>
                  \A s \in Addr, v \in Values, q \in Args :
                     BuyItem(s, v, m, i, q) =>
                        /\ Quantity(ledger', m, i) = Quantity(ledger, m, i) - q
                        /\ Profit(ledger', m) = Profit(ledger, m) + Price(ledger, m, i) * q
          /\ \A m \in MerchantIds, i \in ItemIds :
               Quantity(ledger', m, i) > Quantity(ledger, m, i) =>
                  \A s \in Addr, q \in Args :
                     RestockItem(s, m, i, q) =>
                        Quantity(ledger', m, i) = Quantity(ledger, m, i) + q]_vars

\* Several preconditions fail at once and the first in the order is reported:
\* item i is active with one unit at price 2, so a buy of 2 units paying 0 is
\* short of stock, beyond the type in cost, and short of payment; item j is
\* inactive.  The merchant has profit from an earlier buy.
C26_Witness ==
    /\ ledger.initialized /\ Idle /\ ~isEntered(ledger)
    /\ Profit(ledger, 1) > 0
    /\ \E i, j \in ItemIds :
          /\ Active(ledger, 1, i) /\ Price(ledger, 1, i) = 2 /\ Quantity(ledger, 1, i) = 1
          /\ buyItem(ledger, "A", 0, 1, i, 2).err = "InsufficientStock"
          /\ buyItem(ledger, "A", 0, 1, i, 1).err = "InsufficientPayment"
          /\ ~Active(ledger, 1, j)
          /\ buyItem(ledger, "A", 0, 1, j, 2).err = "ItemNotActive"

-----------------------------------------------------------------------------
\* The sum of the profit recorded for the merchants 1..n.
RECURSIVE ProfitUpTo(_, _)
ProfitUpTo(L, n) == IF n = 0 THEN 0 ELSE Profit(L, n) + ProfitUpTo(L, n - 1)

TotalProfit(L) == ProfitUpTo(L, MaxTokens)

\* The currency an instance holds covers the profit it records.
BalanceCoversProfit == ledger.balance >= TotalProfit(ledger)

\* C27: in every reachable state of a ledger instance the currency it holds is
\* at least the sum of the profit recorded for its merchants, and, purchases
\* being the only deposits, exactly that sum.
C27_Solvency ==
    /\ ledger.balance >= TotalProfit(ledger)
    /\ ledger.balance = TotalProfit(ledger)

-----------------------------------------------------------------------------
\* initialize or mintMerchant completes: the receipt callback of its _safeMint
\* returns and the merchant record is written.
Completes(tokenId) ==
    /\ CalleeReturns
    /\ pending.kind = "safeMint"
    /\ pending.op \in {"initialize", "mintMerchant"}
    /\ pending.tokenId = tokenId

\* C28: when initialize or mintMerchant completes for a new merchant id, the
\* profit recorded for that merchant is the profit its purchases have credited
\* so far, those made from inside the recipient's receipt callback included,
\* and zero when no unit of it was bought.
C28_CompletionKeepsProfit ==
    [][\A m \in MerchantIds :
          Completes(m) =>
             /\ Profit(ledger', m) = Profit(ledger, m)
             /\ (\A i \in ItemIds : sales[m][i].sold = 0) => Profit(ledger', m) = 0]_vars

-----------------------------------------------------------------------------
\* C29: in every reachable state of the legacy MerchantNPC an active item has
\* a quantity above zero: buyItem deactivates the item it sells the last unit
\* of, sellItem refuses an item of quantity zero, restockItem adds a positive
\* quantity, retireItem only deactivates.  So the unchecked decrement of
\* buyItem never wraps: a buy that succeeds finds at least one unit and leaves
\* one less.
C29_ActiveItemsInStock ==
    /\ [](\A m \in MerchantIds, i \in ItemIds :
            /\ Active(ledger, m, i) => Quantity(ledger, m, i) > 0
            /\ Quantity(ledger, m, i) \in 0..UintMax
            /\ \A s \in Addr :
                  /\ Quantity(ledger, m, i) = 0
                     => \A price \in Args :
                           MerchantNPC_sellItem(ledger, s, m, i, price).err # "ok"
                  /\ MerchantNPC_restockItem(ledger, s, m, i, 0).err # "ok"
                  /\ LET R == MerchantNPC_retireItem(ledger, s, m, i)
                     IN  R.err = "ok" =>
                            R.L = [ledger EXCEPT !.inventories[m].items[i].isActive = FALSE]
                  /\ \A v \in Values :
                        LET R == MerchantNPC_buyItem(ledger, s, v, m, i)
                        IN  R.err = "ok" =>
                               /\ Quantity(ledger, m, i) >= 1
                               /\ Quantity(R.L, m, i) = Quantity(ledger, m, i) - 1
                               /\ Active(R.L, m, i) = (Quantity(R.L, m, i) > 0))
    /\ [][\A m \in MerchantIds, i \in ItemIds :
            Quantity(ledger', m, i) < Quantity(ledger, m, i) =>
               \/ CalleeReverts
               \/ /\ Quantity(ledger', m, i) = Quantity(ledger, m, i) - 1
                  /\ \E s \in Addr, v \in Values : NPCBuyItem(s, v, m, i)]_vars

\* The last unit of item 0 has been bought: the item is inactive with
\* quantity zero, and its owner's sellItem is refused.
C29_Witness ==
    /\ account = "MerchantNPC"
    /\ exists(ledger, 1)
    /\ hasItem(ledger, 1, 0)
    /\ Quantity(ledger, 1, 0) = 0
    /\ ~Active(ledger, 1, 0)
    /\ Profit(ledger, 1) > 0
    /\ MerchantNPC_sellItem(ledger, ownerOf(ledger, 1), 1, 0, 1).err = "ItemOutOfStock"

-----------------------------------------------------------------------------
\* The record of merchant m has been written (by initialize or mintMerchant).
Recorded(L, m) == L.merchants[m].owner # Zero

\* The ownership check of addItem, restockItem, toggleItem and withdrawProfit
\* lets sender s through for merchant m.
Accepts(L, s, m) ==
    /\ addItem(L, s, m, "N", 1, 1).err # "NotMerchantOwner"
    /\ restockItem(L, s, m, 0, 1).err # "NotMerchantOwner"
    /\ toggleItem(L, s, m, 0).err # "NotMerchantOwner"
    /\ withdrawProfit(L, s, m).err # "NotMerchantOwner"

\* The stored owner and name of a recorded merchant stay as they are in this
\* step (but for the rollback of the transaction that recorded it).
KeepsOwnerAndName ==
    \A m \in MerchantIds :
       Recorded(ledger, m) /\ ~CalleeReverts =>
          /\ ledger'.merchants[m].owner = ledger.merchants[m].owner
          /\ ledger'.merchants[m].name = ledger.merchants[m].name

\* The second half of C30 alone holds: the stored owner and name of a recorded
\* merchant never change.
StoredOwnerAndNameKept == [][KeepsOwnerAndName]_vars

\* C30: after any sequence of operations on an instance, transfers of the
\* merchant token included, the owner stored in a merchant's record is the
\* identity, and the only one, that the ownership checks of addItem,
\* restockItem, toggleItem and withdrawProfit accept for that merchant; and
\* the stored owner and name of a recorded merchant never change.
C30_StoredOwnerIsTheAuthorized ==
    /\ [](\A m \in MerchantIds :
            Idle /\ ledger.initialized /\ exists(ledger, m) /\ Recorded(ledger, m) =>
               \A s \in Addr : Accepts(ledger, s, m) <=> s = ledger.merchants[m].owner)
    /\ [][KeepsOwnerAndName]_vars

====
